---------------------------- MODULE Spec2Model ----------------------------
(***************************************************************************)
(* Model of VEHICLE_AUCTIONS (src/main.py): Transmission.from_str,         *)
(* DataProcessor.parse_auction_date, DataProcessor.process_file,           *)
(* run_pipeline and the __main__ block.                                    *)
(***************************************************************************)
EXTENDS Integers, Sequences, FiniteSets, TLC

VARIABLES
    \* ---- Transmission.from_str, applied to one input ----
    ts_value,      \* the argument `value`
    ts_result,     \* the returned member
    \* ---- parse_auction_date, applied to one input ----
    pd_date_str,   \* the argument `date_str`
    pd_year,       \* datetime.now().year
    pd_result,     \* the returned datetime or the raised error
    \* ---- run_pipeline and __main__ ----
    dir_exists,    \* path.exists()
    files,         \* list(path.glob("*.csv")): the files, in enumeration order
    current_year,  \* datetime.now().year
    pc,            \* position of the coordinator (run_pipeline, then __main__)
    unit,          \* per file: state of its process_file call in the pool
    completed,     \* indices of the units in the order their futures completed
    gather_exc,    \* the exception gather raised inside the `with` block
    raised,        \* the exception that left run_pipeline
    results,       \* the list gather returned
    fi, ri,        \* loop positions of the merge
    auctions,      \* the dict `auctions`, in insertion order
    returned,      \* the value run_pipeline returned
    output         \* what __main__ printed

ts_vars == <<ts_value, ts_result>>
pd_vars == <<pd_date_str, pd_year, pd_result>>
pl_vars == <<dir_exists, files, current_year, pc, unit, completed, gather_exc,
             raised, results, fi, ri, auctions, returned, output>>
vars == <<ts_vars, pd_vars, pl_vars>>

(***************************************************************************)
(* Bounds of the model.                                                    *)
(***************************************************************************)
MaxFiles == 2       \* files in the directory
MaxRows == 2        \* data rows over all files together
MaxPad == 1         \* whitespace characters on each side of a transmission string
MaxYears == 3       \* calendar years tried as the current year

Years == 2026 .. (2026 + MaxYears - 1)

(***************************************************************************)
(* Small helpers.                                                          *)
(***************************************************************************)
RECURSIVE SeqOfChar(_, _)
SeqOfChar(c, n) == IF n = 0 THEN <<>> ELSE <<c>> \o SeqOfChar(c, n - 1)

Range(s) == {s[i] : i \in 1 .. Len(s)}


(***************************************************************************)
(* Strings are sequences of one-character strings.                         *)
(***************************************************************************)
LowerLetters == <<"a", "c", "f", "i", "k", "l", "m", "n", "o", "t", "u", "w">>
UpperLetters == <<"A", "C", "F", "I", "K", "L", "M", "N", "O", "T", "U", "W">>
Whitespace == {" ", "\t"}

\* str.lower() and str.upper() on one character
LowerChar(c) ==
    IF \E i \in 1 .. Len(UpperLetters) : UpperLetters[i] = c
    THEN LowerLetters[CHOOSE i \in 1 .. Len(UpperLetters) : UpperLetters[i] = c]
    ELSE c

UpperChar(c) ==
    IF \E i \in 1 .. Len(LowerLetters) : LowerLetters[i] = c
    THEN UpperLetters[CHOOSE i \in 1 .. Len(LowerLetters) : LowerLetters[i] = c]
    ELSE c

\* str.lower()
Lower(s) == [i \in 1 .. Len(s) |-> LowerChar(s[i])]

\* str.strip(): drops the leading and the trailing whitespace
RECURSIVE LStrip(_)
LStrip(s) == IF s # <<>> /\ Head(s) \in Whitespace THEN LStrip(Tail(s)) ELSE s

RECURSIVE RStrip(_)
RStrip(s) ==
    IF s # <<>> /\ s[Len(s)] \in Whitespace
    THEN RStrip(SubSeq(s, 1, Len(s) - 1))
    ELSE s

Strip(s) == RStrip(LStrip(s))

(***************************************************************************)
(* class Transmission(Enum)                                                *)
(***************************************************************************)
\* the members in definition order, each with its value
Transmission ==
    << [name |-> "AUTOMATIC", value |-> <<"A", "u", "t", "o", "m", "a", "t", "i", "c">>],
       [name |-> "MANUAL",    value |-> <<"M", "a", "n", "u", "a", "l">>],
       [name |-> "UNKNOWN",   value |-> <<"U", "n", "k", "n", "o", "w", "n">>] >>

None == [kind |-> "None", chars |-> <<>>]
Str(s) == [kind |-> "str", chars |-> s]

\* `if value`: None and the empty string are falsy
Truthy(value) == value.kind = "str" /\ value.chars # <<>>

\* the first member whose value matches, as `for member in cls` finds it
RECURSIVE FirstMatch(_, _)
FirstMatch(members, clean_val) ==
    IF members = <<>> THEN "UNKNOWN"
    ELSE IF Lower(Head(members).value) = Lower(clean_val) THEN Head(members).name
    ELSE FirstMatch(Tail(members), clean_val)

\* a plausible bug: the comparison is case-sensitive
from_str_CaseSensitive(value) ==
    LET clean_val == IF Truthy(value) THEN Strip(value.chars) ELSE <<>>
    IN  IF clean_val = <<>> THEN "UNKNOWN"
        ELSE IF \E i \in 1 .. Len(Transmission) : Transmission[i].value = clean_val
        THEN Transmission[CHOOSE i \in 1 .. Len(Transmission) :
                             Transmission[i].value = clean_val].name
        ELSE "UNKNOWN"

\* Transmission.from_str
from_str(value) ==
    LET clean_val == IF Truthy(value) THEN Strip(value.chars) ELSE <<>>
    IN  IF clean_val = <<>> THEN "UNKNOWN"
        ELSE FirstMatch(Transmission, clean_val)

(***************************************************************************)
(* The inputs tried on from_str: a word in any mix of cases, padded with   *)
(* whitespace on both sides, or None.                                      *)
(***************************************************************************)
Words ==
    { <<"a", "u", "t", "o", "m", "a", "t", "i", "c">>,
      <<"m", "a", "n", "u", "a", "l">>,
      <<"u", "n", "k", "n", "o", "w", "n">>,
      <<"m", "a", "n", "u", "a">>,
      <<"m", "a", "n", " ", "u", "a", "l">>,
      <<"f", "o", "o">>,
      <<>> }

Cased(w, mask) == [i \in 1 .. Len(w) |-> IF i \in mask THEN UpperChar(w[i]) ELSE w[i]]

Pads == UNION {{SeqOfChar(c, n) : c \in Whitespace} : n \in 0 .. MaxPad}

TsInputs ==
    {None} \cup
    UNION { { Str(l \o Cased(w, mask) \o r) :
                mask \in SUBSET (1 .. Len(w)), l \in Pads, r \in Pads } : w \in Words }

TsInit ==
    /\ ts_value \in TsInputs
    /\ ts_result = [status |-> "pending", member |-> "UNKNOWN"]

\* the call Transmission.from_str(value)
TsCall ==
    /\ ts_result.status = "pending"
    /\ ts_result' = [status |-> "returned", member |-> from_str(ts_value)]
    /\ UNCHANGED <<ts_value, pd_vars, pl_vars>>


(***************************************************************************)
(* The calendar, as datetime computes with it.                             *)
(***************************************************************************)
MonthNames == <<"Jan", "Feb", "Mar", "Apr", "May", "Jun",
                "Jul", "Aug", "Sep", "Oct", "Nov", "Dec">>
DayNames == {"Mon", "Tue", "Wed", "Thu", "Fri", "Sat", "Sun"}

IsLeap(y) == (y % 4 = 0) /\ ((y % 100 # 0) \/ (y % 400 = 0))

DaysInMonth(y, m) ==
    IF m = 2 THEN (IF IsLeap(y) THEN 29 ELSE 28)
    ELSE IF m \in {4, 6, 9, 11} THEN 30 ELSE 31

RECURSIVE DaysBeforeMonth(_, _)
DaysBeforeMonth(y, m) ==
    IF m = 1 THEN 0 ELSE DaysBeforeMonth(y, m - 1) + DaysInMonth(y, m - 1)

\* date.toordinal(): days since 0001-01-01, which is day 1
ToOrdinal(y, m, d) ==
    LET p == y - 1
    IN  365 * p + (p \div 4) - (p \div 100) + (p \div 400) + DaysBeforeMonth(y, m) + d

\* date.weekday(): Monday is 0, Sunday is 6
Weekday(y, m, d) == (ToOrdinal(y, m, d) + 6) % 7

\* minutes since 0001-01-01 00:00 of a naive datetime
ToMinutes(dt) == (ToOrdinal(dt.year, dt.month, dt.day) - 1) * 1440 + dt.hour * 60 + dt.minute

DateTime(y, m, d, H, M) == [year |-> y, month |-> m, day |-> d, hour |-> H, minute |-> M]

\* datetime + timedelta(minutes = n), for 0 <= n < 1440
PlusMinutes(dt, n) ==
    LET total == dt.hour * 60 + dt.minute + n
        carry == total \div 1440
        rest  == total % 1440
        last  == DaysInMonth(dt.year, dt.month)
        d     == IF dt.day + carry > last THEN 1 ELSE dt.day + carry
        mc    == IF dt.day + carry > last THEN 1 ELSE 0
        m     == IF dt.month + mc > 12 THEN 1 ELSE dt.month + mc
        y     == IF dt.month + mc > 12 THEN dt.year + 1 ELSE dt.year
    IN  DateTime(y, m, d, rest \div 60, rest % 60)

(***************************************************************************)
(* pytz.timezone("US/Central")                                             *)
(***************************************************************************)
CST == 360     \* minutes behind UTC, standard time
CDT == 300     \* minutes behind UTC, daylight-saving time

\* the n-th Sunday of month m in year y
NthSunday(y, m, n) ==
    CHOOSE d \in (7 * (n - 1) + 1) .. (7 * n) : Weekday(y, m, d) = 6

\* the UTC transition times of the zone in year y: daylight-saving time
\* starts on the second Sunday of March at 02:00 CST and ends on the first
\* Sunday of November at 02:00 CDT
DstStartUtc(y) == ToMinutes(DateTime(y, 3, NthSunday(y, 3, 2), 2, 0)) + CST
DstEndUtc(y) == ToMinutes(DateTime(y, 11, NthSunday(y, 11, 1), 2, 0)) + CDT

\* the offset in force at a UTC instant of year y
OffsetAtUtc(y, utc) ==
    IF DstStartUtc(y) <= utc /\ utc < DstEndUtc(y) THEN CDT ELSE CST

\* a plausible bug: the zone is a fixed UTC-6, with no daylight-saving time
localize_FixedOffset(naive) == CST

\* central_tz.localize(naive), is_dst = False: the offset of the result.
\* The offsets under which the wall-clock time exists are the candidates; an
\* ambiguous time takes the standard one, a time that does not exist takes
\* the offset in force six hours earlier.
localize(naive) ==
    LET wall == ToMinutes(naive)
        possible == {off \in {CST, CDT} : OffsetAtUtc(naive.year, wall + off) = off}
    IN  IF Cardinality(possible) = 1 THEN CHOOSE off \in possible : TRUE
        ELSE IF possible = {} THEN OffsetAtUtc(naive.year, wall - 360 + CST)
        ELSE CST

\* localized.astimezone(pytz.UTC)
astimezone_utc(naive, offset) == PlusMinutes(naive, offset)


(***************************************************************************)
(* DataProcessor.parse_auction_date                                        *)
(*                                                                         *)
(* A date string is the text of a token `wd mon dd, hh:mi mer` followed by *)
(* `tail`, or free text with no token in it (form = "free").               *)
(***************************************************************************)
DateStr(wd, mon, dd, hh, mi, mer, tail) ==
    [form |-> "token", wd |-> wd, mon |-> mon, dd |-> dd, hh |-> hh, mi |-> mi,
     mer |-> mer, tail |-> tail]

FreeText ==
    [form |-> "free", wd |-> "", mon |-> "", dd |-> 0, hh |-> 0, mi |-> 0,
     mer |-> "", tail |-> "TBD"]

\* date_str.replace("am", "AM").replace("pm", "PM"): no day or month name and
\* none of the tails holds "am" or "pm", so only the meridiem changes
ReplaceMeridiem(date_str) ==
    [date_str EXCEPT !.mer = IF @ = "am" THEN "AM" ELSE IF @ = "pm" THEN "PM" ELSE @]

\* re.search(r'[a-zA-Z]{3} [a-zA-Z]{3} \d{2}, \d{1,2}:\d{2}[APM]{2}', ...):
\* the meridiem must be two of the capitals A, P, M
RegexMatches(clean_date) ==
    /\ clean_date.form = "token"
    /\ clean_date.mer \in {"AM", "PM", "AA", "AP", "MA", "MM", "MP", "PA", "PP"}

\* match.group(0): the token without what follows it
MatchGroup(clean_date) == [clean_date EXCEPT !.tail = ""]

MonthNum(mon) == CHOOSE m \in 1 .. 12 : MonthNames[m] = mon

\* datetime.strptime(f"{year} {clean_date}", "%Y %a %b %d, %I:%M%p") succeeds
StrptimeOk(year, clean_date) ==
    /\ clean_date.form = "token"
    /\ clean_date.tail = ""                          \* no unconverted data
    /\ clean_date.wd \in DayNames                    \* %a
    /\ clean_date.mon \in Range(MonthNames)          \* %b
    /\ clean_date.dd \in 1 .. 31                     \* %d
    /\ clean_date.hh \in 1 .. 12                     \* %I
    /\ clean_date.mi \in 0 .. 59                     \* %M
    /\ clean_date.mer \in {"AM", "PM", "Am", "Pm", "aM", "pM", "am", "pm"}   \* %p
    /\ clean_date.dd <= DaysInMonth(year, MonthNum(clean_date.mon))

IsPM(mer) == mer \in {"PM", "Pm", "pM", "pm"}

\* the hour of the 24-hour clock for %I and %p: 12AM is 0, 12PM is 12
Hour24(hh, mer) ==
    IF IsPM(mer) THEN (IF hh # 12 THEN hh + 12 ELSE 12)
    ELSE (IF hh = 12 THEN 0 ELSE hh)

\* the naive datetime strptime returns; the weekday name is not compared
\* with the date
Strptime(year, clean_date) ==
    DateTime(year, MonthNum(clean_date.mon), clean_date.dd,
             Hour24(clean_date.hh, clean_date.mer), clean_date.mi)

Parsed(dt) == [status |-> "ok", dt |-> dt, tzinfo |-> "UTC", error |-> ""]
Failed(error) ==
    [status |-> "error", dt |-> DateTime(0, 0, 0, 0, 0), tzinfo |-> "", error |-> error]
Pending ==
    [status |-> "pending", dt |-> DateTime(0, 0, 0, 0, 0), tzinfo |-> "", error |-> ""]

\* parse_auction_date(date_str), with datetime.now().year = current
parse_auction_date(date_str, current) ==
    LET replaced   == ReplaceMeridiem(date_str)
        clean_date == IF RegexMatches(replaced) THEN MatchGroup(replaced) ELSE replaced
    IN  IF ~ StrptimeOk(current, clean_date) THEN Failed("ValueError")
        ELSE LET naive_date == Strptime(current, clean_date)
             IN  Parsed(astimezone_utc(naive_date, localize(naive_date)))

(***************************************************************************)
(* The date strings tried on parse_auction_date.                           *)
(***************************************************************************)
DaysTried == {0, 1, 4, 5, 7, 8, 9, 11, 12, 14, 28, 29, 30, 31, 32}
HoursTried == 0 .. 13
MinutesTried == {0, 30, 59}

DateStrs ==
    {FreeText} \cup
    { DateStr(wd, mon, dd, hh, mi, mer, tail) :
        wd \in {"Mon", "Xyz"},
        mon \in {"Jan", "Feb", "Mar", "Jun", "Nov", "Dec", "Foo"},
        dd \in DaysTried, hh \in HoursTried, mi \in MinutesTried,
        mer \in {"am", "pm", "AM", "PM", "Am"},
        tail \in {"", " CST"} }

PdInit ==
    /\ pd_date_str \in DateStrs
    /\ pd_year \in Years
    /\ pd_result = Pending

\* the call DataProcessor.parse_auction_date(date_str)
PdCall ==
    /\ pd_result.status = "pending"
    /\ pd_result' = parse_auction_date(pd_date_str, pd_year)
    /\ UNCHANGED <<pd_date_str, pd_year, ts_vars, pl_vars>>


(***************************************************************************)
(* Rows, vehicles and auctions.  Make, Model, Engine and Cylinders are     *)
(* copied from the row into the Vehicle unchanged and are left out.        *)
(***************************************************************************)
Row(date, branch, year, vin, transmission) ==
    [date |-> date, branch |-> branch, year |-> year, vin |-> vin,
     transmission |-> transmission]

\* int(row['Year'])
IntOk(text) == text \in {"2020", "2021"}
IntOf(text) == IF text = "2020" THEN 2020 ELSE 2021

\* Vehicle(year = int(row['Year']), ..., transmission = Transmission.from_str(...))
Vehicle(row) ==
    [year |-> IntOf(row.year), vin |-> row.vin, transmission |-> from_str(row.transmission)]

\* Auction(date_utc = ..., location = ...), with vehicles = [] by default
Auction(date_utc, location) ==
    [date_utc |-> date_utc, location |-> location, vehicles |-> <<>>]

NoError == [type |-> "", origin |-> ""]
Error(type, origin) == [type |-> type, origin |-> origin]

(***************************************************************************)
(* DataProcessor.process_file, one row at a time.                          *)
(***************************************************************************)
\* the tuple the comprehension builds from a row, or the error it raises:
\* the date is parsed first, then the year is converted
RowResult(row, current) ==
    LET date == parse_auction_date(row.date, current)
    IN  IF date.status = "error" THEN [ok |-> FALSE, error |-> Error(date.error, "date")]
        ELSE IF ~ IntOk(row.year) THEN [ok |-> FALSE, error |-> Error("ValueError", "year")]
        ELSE [ok |-> TRUE,
              triple |-> [date_utc |-> date.dt, loc |-> row.branch, vehicle |-> Vehicle(row)]]

Queued == [st |-> "queued", pos |-> 0, acc |-> <<>>, error |-> NoError, starts |-> 0]

AllComplete == \A i \in 1 .. Len(unit) : unit[i].st \in {"done", "failed"}
Dispatched == pc \in {"await", "shutdown"}

\* a worker thread takes the work item of file i and opens the file.  The
\* pool of ThreadPoolExecutor() has min(32, cpu_count + 4) threads, more than
\* MaxFiles, so a queued item waits only for a thread to pick it up.
Start(i) ==
    /\ Dispatched
    /\ unit[i].st = "queued"
    /\ IF files[i].openable
       THEN /\ unit' = [unit EXCEPT ![i].st = "running", ![i].starts = @ + 1]
            /\ UNCHANGED completed
       ELSE /\ unit' = [unit EXCEPT ![i].st = "failed", ![i].starts = @ + 1,
                                    ![i].error = Error("FileNotFoundError", "file")]
            /\ completed' = Append(completed, i)
    /\ UNCHANGED <<ts_vars, pd_vars, dir_exists, files, current_year, pc,
                   gather_exc, raised, results, fi, ri, auctions,
                   returned, output>>

\* a plausible bug: a row that fails is skipped and the file goes on
AfterRow_SkipBadRow(u, r) ==
    IF r.ok THEN [u EXCEPT !.pos = @ + 1, !.acc = Append(@, r.triple)]
    ELSE [u EXCEPT !.pos = @ + 1]

\* the call of process_file after one more row: the tuple joins the list, or
\* the error leaves process_file and the list built so far is dropped
AfterRow(u, r) ==
    IF r.ok THEN [u EXCEPT !.pos = @ + 1, !.acc = Append(@, r.triple)]
    ELSE [u EXCEPT !.st = "failed", !.acc = <<>>, !.error = r.error]

\* the comprehension handles the next row of file i
ProcessRow(i) ==
    /\ unit[i].st = "running"
    /\ unit[i].pos < Len(files[i].rows)
    /\ unit' = [unit EXCEPT
                  ![i] = AfterRow(@, RowResult(files[i].rows[unit[i].pos + 1], current_year))]
    /\ completed' = IF unit'[i].st = "failed" THEN Append(completed, i) ELSE completed
    /\ UNCHANGED <<ts_vars, pd_vars, dir_exists, files, current_year, pc,
                   gather_exc, raised, results, fi, ri, auctions,
                   returned, output>>

\* process_file returns the list of file i
Finish(i) ==
    /\ unit[i].st = "running"
    /\ unit[i].pos = Len(files[i].rows)
    /\ unit' = [unit EXCEPT ![i].st = "done"]
    /\ completed' = Append(completed, i)
    /\ UNCHANGED <<ts_vars, pd_vars, dir_exists, files, current_year, pc,
                   gather_exc, raised, results, fi, ri, auctions,
                   returned, output>>


(***************************************************************************)
(* run_pipeline                                                            *)
(***************************************************************************)
\* a plausible bug: the directory is not checked
DirectoryMissing_Unchecked(exists) == FALSE

\* `not path.exists()`
DirectoryMissing(exists) == ~ exists

\* `if not path.exists(): raise FileNotFoundError(...)`
RaiseDirectoryNotFound ==
    /\ pc = "start"
    /\ DirectoryMissing(dir_exists)
    /\ raised' = Error("FileNotFoundError", "directory")
    /\ pc' = "raised"
    /\ UNCHANGED <<ts_vars, pd_vars, dir_exists, files, current_year, unit,
                   completed, gather_exc, results, fi, ri,
                   auctions, returned, output>>

\* files = list(path.glob("*.csv")); one run_in_executor per file; the
\* coordinator suspends in gather
Dispatch ==
    /\ pc = "start"
    /\ ~ DirectoryMissing(dir_exists)
    /\ unit' = [i \in 1 .. Len(files) |-> Queued]
    /\ pc' = "await"
    /\ UNCHANGED <<ts_vars, pd_vars, dir_exists, files, current_year,
                   completed, gather_exc, raised, results, fi, ri,
                   auctions, returned, output>>

\* a plausible bug: the results are collected in completion order
GatherResults_AsCompleted(units, order) == [j \in 1 .. Len(order) |-> units[order[j]].acc]

\* the list gather returns: the result of every task, in the order of `tasks`
GatherResults(units, order) == [i \in 1 .. Len(units) |-> units[i].acc]

\* the position of the first triple at or after (f, r), or <<Len(res) + 1, 1>>
RECURSIVE Seek(_, _, _)
Seek(res, f, r) ==
    IF f > Len(res) THEN <<Len(res) + 1, 1>>
    ELSE IF r <= Len(res[f]) THEN <<f, r>>
    ELSE Seek(res, f + 1, 1)

\* every task succeeded: gather returns, the pool shuts down, the merge starts
GatherReturn ==
    /\ pc = "await"
    /\ \A i \in 1 .. Len(unit) : unit[i].st = "done"
    /\ results' = GatherResults(unit, completed)
    /\ fi' = Seek(results', 1, 1)[1]
    /\ ri' = Seek(results', 1, 1)[2]
    /\ pc' = "merge"
    /\ UNCHANGED <<ts_vars, pd_vars, dir_exists, files, current_year, unit,
                   completed, gather_exc, raised, auctions,
                   returned, output>>

\* a plausible bug: the exception of the first failed task in task order
FirstException_TaskOrder(units, order) ==
    units[CHOOSE i \in 1 .. Len(units) :
            /\ units[i].st = "failed"
            /\ \A j \in 1 .. (i - 1) : units[j].st # "failed"].error

\* the exception gather propagates: that of the first task to complete
\* with one
FirstException(units, order) ==
    units[order[CHOOSE j \in 1 .. Len(order) :
                  /\ units[order[j]].st = "failed"
                  /\ \A k \in 1 .. (j - 1) : units[order[k]].st # "failed"]].error

\* a task failed: gather raises its exception into the `with` block, whose
\* exit is pool.shutdown(wait=True)
GatherRaise ==
    /\ pc = "await"
    /\ \E i \in 1 .. Len(unit) : unit[i].st = "failed"
    /\ gather_exc' = FirstException(unit, completed)
    /\ pc' = "shutdown"
    /\ UNCHANGED <<ts_vars, pd_vars, dir_exists, files, current_year, unit,
                   completed, raised, results, fi, ri, auctions, returned,
                   output>>

\* a plausible bug: the pool is shut down with wait=False
ShutdownReady_NoWait == TRUE

\* pool.shutdown(wait=True) returns once every work item has run
ShutdownReady == AllComplete

\* the exception leaves the `with` block and run_pipeline
ShutdownRaise ==
    /\ pc = "shutdown"
    /\ ShutdownReady
    /\ raised' = gather_exc
    /\ pc' = "raised"
    /\ UNCHANGED <<ts_vars, pd_vars, dir_exists, files, current_year, unit,
                   completed, gather_exc, results, fi, ri,
                   auctions, returned, output>>

\* the index of the Auction of a key in the dict, 0 when the key is absent
IndexOf(aucs, date_utc, loc) ==
    IF \E k \in 1 .. Len(aucs) : aucs[k].date_utc = date_utc /\ aucs[k].location = loc
    THEN CHOOSE k \in 1 .. Len(aucs) : aucs[k].date_utc = date_utc /\ aucs[k].location = loc
    ELSE 0

\* a plausible bug: the key is the location alone
Merge_ByLocation(aucs, t) ==
    LET k == IF \E j \in 1 .. Len(aucs) : aucs[j].location = t.loc
             THEN CHOOSE j \in 1 .. Len(aucs) : aucs[j].location = t.loc ELSE 0
        with == IF k = 0 THEN Append(aucs, Auction(t.date_utc, t.loc)) ELSE aucs
        at == IF k = 0 THEN Len(with) ELSE k
    IN  [with EXCEPT ![at].vehicles = Append(@, t.vehicle)]

\* a plausible bug: the Auction of a key is replaced by a new one each time
Merge_Replace(aucs, t) ==
    LET k == IndexOf(aucs, t.date_utc, t.loc)
        new == [Auction(t.date_utc, t.loc) EXCEPT !.vehicles = <<t.vehicle>>]
    IN  IF k = 0 THEN Append(aucs, new) ELSE [aucs EXCEPT ![k] = new]

\* the body of the merge loop for one triple
Merge(aucs, t) ==
    LET k == IndexOf(aucs, t.date_utc, t.loc)
        with == IF k = 0 THEN Append(aucs, Auction(t.date_utc, t.loc)) ELSE aucs
        at == IF k = 0 THEN Len(with) ELSE k
    IN  [with EXCEPT ![at].vehicles = Append(@, t.vehicle)]

\* one iteration of the merge loops
MergeStep ==
    /\ pc = "merge"
    /\ fi <= Len(results)
    /\ auctions' = Merge(auctions, results[fi][ri])
    /\ fi' = Seek(results, fi, ri + 1)[1]
    /\ ri' = Seek(results, fi, ri + 1)[2]
    /\ UNCHANGED <<ts_vars, pd_vars, dir_exists, files, current_year, pc,
                   unit, completed, gather_exc, raised, results,
                   returned, output>>

\* return list(auctions.values())
Return ==
    /\ pc = "merge"
    /\ fi > Len(results)
    /\ returned' = [is_set |-> TRUE, list |-> auctions]
    /\ pc' = "returned"
    /\ UNCHANGED <<ts_vars, pd_vars, dir_exists, files, current_year, unit,
                   completed, gather_exc, raised, results, fi, ri,
                   auctions, output>>


(***************************************************************************)
(* Auction.display_local_time and the __main__ block                      *)
(***************************************************************************)
LastSunday(y, m) ==
    CHOOSE d \in (DaysInMonth(y, m) - 6) .. DaysInMonth(y, m) : Weekday(y, m, d) = 6

\* pytz.timezone("Europe/Warsaw"): CEST from the last Sunday of March 01:00
\* UTC to the last Sunday of October 01:00 UTC, CET otherwise
WarsawIsSummer(utc) ==
    /\ ToMinutes(DateTime(utc.year, 3, LastSunday(utc.year, 3), 1, 0)) <= ToMinutes(utc)
    /\ ToMinutes(utc) < ToMinutes(DateTime(utc.year, 10, LastSunday(utc.year, 10), 1, 0))

\* self.date_utc.astimezone(local_tz).strftime("%Y-%m-%d %H:%M %Z")
display_local_time(date_utc) ==
    IF WarsawIsSummer(date_utc)
    THEN [local |-> PlusMinutes(date_utc, 120), zone |-> "CEST"]
    ELSE [local |-> PlusMinutes(date_utc, 60), zone |-> "CET"]

\* the block printed for one Auction; the sample line is the first vehicle
ReportBlock(auc) ==
    [location |-> auc.location,
     local_time |-> display_local_time(auc.date_utc),
     count |-> Len(auc.vehicles),
     sample |-> IF auc.vehicles # <<>> THEN <<auc.vehicles[1]>> ELSE <<>>]

\* the `try` body after run_pipeline returned
PrintReport ==
    /\ pc = "returned"
    /\ output' = [kind |-> "report",
                  blocks |-> [k \in 1 .. Len(returned.list) |-> ReportBlock(returned.list[k])]]
    /\ pc' = "exit"
    /\ UNCHANGED <<ts_vars, pd_vars, dir_exists, files, current_year, unit,
                   completed, gather_exc, raised, results, fi, ri,
                   auctions, returned>>

\* `except FileNotFoundError`
PrintDirectoryError ==
    /\ pc = "raised"
    /\ raised.type = "FileNotFoundError"
    /\ output' = [kind |-> "directory_error", blocks |-> <<>>]
    /\ pc' = "exit"
    /\ UNCHANGED <<ts_vars, pd_vars, dir_exists, files, current_year, unit,
                   completed, gather_exc, raised, results, fi, ri,
                   auctions, returned>>

\* `except Exception`
PrintGenericError ==
    /\ pc = "raised"
    /\ raised.type # "FileNotFoundError"
    /\ output' = [kind |-> "generic_error", blocks |-> <<>>]
    /\ pc' = "exit"
    /\ UNCHANGED <<ts_vars, pd_vars, dir_exists, files, current_year, unit,
                   completed, gather_exc, raised, results, fi, ri,
                   auctions, returned>>

(***************************************************************************)
(* The directories tried on run_pipeline.                                  *)
(***************************************************************************)
Dec01am == DateStr("Mon", "Dec", 1, 8, 30, "am", " CST")
Dec01AM == DateStr("Mon", "Dec", 1, 8, 30, "AM", "")
Dec02 == DateStr("Tue", "Dec", 2, 12, 0, "am", "")

RowsTried ==
    { Row(Dec01am, "Austin", "2020", "VIN1", Str(<<"a", "u", "t", "o", "m", "a", "t", "i", "c">>)),
      Row(Dec01AM, "Austin", "2021", "VIN2", Str(<<"M", "A", "N", "U", "A", "L">>)),
      Row(Dec01am, "Dallas", "2020", "VIN1", Str(<<>>)),
      Row(Dec02, "Austin", "2020", "VIN3", Str(<<"f", "o", "o">>)),
      Row(Dec01am, "Austin", "STARY", "VIN4", Str(<<>>)),
      Row(FreeText, "Austin", "2020", "VIN5", Str(<<>>)) }

RECURSIVE RowSeqs(_)
RowSeqs(n) ==
    IF n = 0 THEN {<<>>}
    ELSE RowSeqs(n - 1) \cup
         {Append(s, r) : s \in {t \in RowSeqs(n - 1) : Len(t) = n - 1}, r \in RowsTried}

File(openable, rows) == [openable |-> openable, rows |-> rows]

\* the files with at most n rows; a file that cannot be opened has none
FilesTried(n) == {File(TRUE, s) : s \in RowSeqs(n)} \cup {File(FALSE, <<>>)}

\* the lists of n files with at most `budget` rows together
RECURSIVE FileLists(_, _)
FileLists(n, budget) ==
    IF n = 0 THEN {<<>>}
    ELSE UNION { { <<f>> \o rest : rest \in FileLists(n - 1, budget - Len(f.rows)) } :
                 f \in FilesTried(budget) }

PlInit ==
    /\ dir_exists \in BOOLEAN
    /\ files \in IF dir_exists THEN UNION {FileLists(n, MaxRows) : n \in 0 .. MaxFiles}
                 ELSE {<<>>}
    /\ current_year \in {2026}     \* every row tried is dated in December
    /\ pc = "start"
    /\ unit = <<>>
    /\ completed = <<>>
    /\ gather_exc = NoError
    /\ raised = NoError
    /\ results = <<>>
    /\ fi = 1
    /\ ri = 1
    /\ auctions = <<>>
    /\ returned = [is_set |-> FALSE, list |-> <<>>]
    /\ output = [kind |-> "none", blocks |-> <<>>]

TsIdle == ts_value = None /\ ts_result = [status |-> "pending", member |-> "UNKNOWN"]
PdIdle == pd_date_str = FreeText /\ pd_year = 2026 /\ pd_result = Pending
PlIdle ==
    /\ dir_exists = FALSE /\ files = <<>> /\ current_year = 2026 /\ pc = "idle"
    /\ unit = <<>> /\ completed = <<>> /\ gather_exc = NoError /\ raised = NoError
    /\ results = <<>> /\ fi = 1 /\ ri = 1 /\ auctions = <<>>
    /\ returned = [is_set |-> FALSE, list |-> <<>>]
    /\ output = [kind |-> "none", blocks |-> <<>>]

Init == PlInit /\ TsIdle /\ PdIdle

Next ==
    \/ RaiseDirectoryNotFound
    \/ Dispatch
    \/ \E i \in 1 .. Len(unit) : Start(i)
    \/ \E i \in 1 .. Len(unit) : ProcessRow(i)
    \/ \E i \in 1 .. Len(unit) : Finish(i)
    \/ GatherReturn
    \/ GatherRaise
    \/ ShutdownRaise
    \/ MergeStep
    \/ Return
    \/ PrintReport
    \/ PrintDirectoryError
    \/ PrintGenericError

(***************************************************************************)
(* The specifications: the pipeline, and each pure function on its inputs. *)
(***************************************************************************)
Spec == Init /\ [][Next]_vars

TransmissionInit == TsInit /\ PdIdle /\ PlIdle
TransmissionNext == TsCall
TransmissionSpec == TransmissionInit /\ [][TransmissionNext]_vars

DateInit == PdInit /\ TsIdle /\ PlIdle
DateNext == PdCall
DateSpec == DateInit /\ [][DateNext]_vars


(***************************************************************************)
(* What the properties speak of.                                           *)
(***************************************************************************)
\* the positions <<file, row>> of the data rows of the directory
Positions ==
    UNION { { <<f, r>> : r \in 1 .. Len(files[f].rows) } : f \in 1 .. Len(files) }

RowAt(p) == files[p[1]].rows[p[2]]

\* the grouping key of a row
KeyOf(row) == <<parse_auction_date(row.date, current_year).dt, row.branch>>
KeyOfAuction(auc) == <<auc.date_utc, auc.location>>


\* the date string holds a token of the expected layout: a weekday, a month,
\* a day of that month, an hour of the 12-hour clock, a minute, am or pm
ValidToken(d, y) ==
    /\ d.form = "token"
    /\ d.wd \in DayNames
    /\ d.mon \in Range(MonthNames)
    /\ d.dd \in 1 .. DaysInMonth(y, MonthNum(d.mon))
    /\ d.hh \in 1 .. 12
    /\ d.mi \in 0 .. 59
    /\ d.mer \in {"am", "pm", "AM", "PM"}

\* a row process_file fails on: its date has no such token, or its Year is
\* no integer
IsBadRow(row) ==
    \/ ~ ValidToken(row.date, current_year)
    \/ row.year \notin {"2020", "2021"}

Count(seq, x) == Cardinality({j \in 1 .. Len(seq) : seq[j] = x})

AnyFailed == \E i \in 1 .. Len(unit) : unit[i].st = "failed"

\* the rows of all files, in enumeration order and file-row order
RECURSIVE FlatRows(_)
FlatRows(fs) == IF fs = <<>> THEN <<>> ELSE Head(fs).rows \o FlatRows(Tail(fs))

\* the vehicles of the rows of a key, in the order of the rows
VehiclesInOrder(rows, key) ==
    LET HasKey(row) == KeyOf(row) = key
        mine == SelectSeq(rows, HasKey)
    IN  [j \in 1 .. Len(mine) |-> Vehicle(mine[j])]

FirstIndex(rows, key) == CHOOSE j \in 1 .. Len(rows) :
    /\ KeyOf(rows[j]) = key
    /\ \A h \in 1 .. (j - 1) : KeyOf(rows[h]) # key

(***************************************************************************)
(* C1: when run_pipeline succeeds, the returned list holds exactly one     *)
(* Auction for each (date_utc, location) key that occurs in some row and   *)
(* none for any other key, and the vehicles of an Auction are exactly the  *)
(* vehicles of the rows with its key, each as often as it occurs there.    *)
(***************************************************************************)
C1_Grouping ==
    returned.is_set =>
        LET L == returned.list
        IN  /\ \A j, k \in 1 .. Len(L) : j # k => KeyOfAuction(L[j]) # KeyOfAuction(L[k])
            /\ {KeyOfAuction(L[k]) : k \in 1 .. Len(L)} = {KeyOf(RowAt(p)) : p \in Positions}
            /\ \A k \in 1 .. Len(L) :
                 LET mine == {p \in Positions : KeyOf(RowAt(p)) = KeyOfAuction(L[k])}
                 IN  /\ Len(L[k].vehicles) = Cardinality(mine)
                     /\ \A p \in mine :
                          Count(L[k].vehicles, Vehicle(RowAt(p))) =
                          Cardinality({q \in mine : Vehicle(RowAt(q)) = Vehicle(RowAt(p))})

\* two rows of one key with different VINs came back as one Auction of two
C1_Witness ==
    /\ returned.is_set
    /\ Cardinality(Positions) = 2
    /\ Len(returned.list) = 1
    /\ Len(returned.list[1].vehicles) = 2
    /\ returned.list[1].vehicles[1].vin # returned.list[1].vehicles[2].vin

(***************************************************************************)
(* C2: once the processing of a file has failed, the merge is never        *)
(* executed and nothing is returned; the exception that leaves             *)
(* run_pipeline is that of the first unit to fail; no unit is started      *)
(* twice.                                                                  *)
(***************************************************************************)
C2_FailFast ==
    /\ AnyFailed =>
         /\ pc \in {"await", "shutdown", "raised", "exit"}
         /\ ~ returned.is_set
         /\ results = <<>> /\ auctions = <<>> /\ fi = 1 /\ ri = 1
         /\ output.kind # "report"
    /\ (AnyFailed /\ pc \in {"raised", "exit"}) =>
         \E j \in 1 .. Len(completed) :
             /\ unit[completed[j]].st = "failed"
             /\ \A h \in 1 .. (j - 1) : unit[completed[h]].st = "done"
             /\ raised = unit[completed[j]].error
    /\ \A i \in 1 .. Len(unit) : unit[i].starts <= 1

\* the pipeline failed although another file had been processed to the end
C2_Witness ==
    /\ pc = "raised"
    /\ \E i \in 1 .. Len(unit) : unit[i].st = "done" /\ unit[i].acc # <<>>
    /\ AnyFailed

(***************************************************************************)
(* C3: when the directory does not exist, run_pipeline raises              *)
(* FileNotFoundError for the directory before it lists or dispatches       *)
(* anything, and returns nothing.                                          *)
(***************************************************************************)
C3_DirectoryNotFound ==
    ~ dir_exists =>
        /\ pc \in {"start", "raised", "exit"}
        /\ unit = <<>> /\ completed = <<>>
        /\ ~ returned.is_set
        /\ pc # "start" => raised = Error("FileNotFoundError", "directory")

C3_Witness == ~ dir_exists /\ pc = "raised" /\ raised.origin = "directory"

(***************************************************************************)
(* C6: the missing-directory message is printed exactly when the failure   *)
(* is the missing directory, every other failure prints the generic        *)
(* message, and a failure prints no report block.                          *)
(***************************************************************************)
C6_MessageByFailure ==
    pc = "exit" =>
        /\ output.kind = "directory_error" <=> raised.origin = "directory"
        /\ (raised # NoError /\ raised.origin # "directory") => output.kind = "generic_error"
        /\ raised # NoError => (output.kind # "report" /\ output.blocks = <<>>)

(***************************************************************************)
(* C7: process_file is all-or-nothing: a file with a row that fails gives  *)
(* an error and no triples, a file without one gives one triple per row.   *)
(***************************************************************************)
C7_AllOrNothing ==
    /\ \A i \in 1 .. Len(unit) :
         LET rows == files[i].rows
             bad == {k \in 1 .. Len(rows) : IsBadRow(rows[k])}
         IN  /\ unit[i].st = "failed" =>
                  /\ unit[i].acc = <<>>
                  /\ unit[i].error # NoError
                  /\ bad # {} \/ ~ files[i].openable
             /\ unit[i].st = "done" =>
                  /\ bad = {}
                  /\ Len(unit[i].acc) = Len(rows)
                  /\ \A k \in 1 .. Len(rows) :
                       /\ unit[i].acc[k].loc = rows[k].branch
                       /\ unit[i].acc[k].vehicle.vin = rows[k].vin
             /\ (bad # {} /\ unit[i].st \in {"done", "failed"}) => unit[i].st = "failed"
    /\ \A i \in 1 .. Len(results) : Len(results[i]) = Len(files[i].rows)

\* a file failed on its second row, after a valid first row
C7_Witness ==
    \E i \in 1 .. Len(unit) :
        /\ unit[i].st = "failed"
        /\ Len(files[i].rows) = 2
        /\ ~ IsBadRow(files[i].rows[1])
        /\ IsBadRow(files[i].rows[2])

(***************************************************************************)
(* C8: when the failure of a file leaves run_pipeline, every dispatched    *)
(* unit has run to completion, exactly once, and no result is kept.        *)
(***************************************************************************)
C8_SiblingsComplete ==
    (pc \in {"raised", "exit"} /\ raised # NoError /\ raised.origin # "directory") =>
        /\ \A i \in 1 .. Len(unit) : unit[i].st \in {"done", "failed"} /\ unit[i].starts = 1
        /\ ~ returned.is_set
        /\ results = <<>> /\ auctions = <<>>

\* a sibling that was not complete when the first unit failed has produced
\* its triples before the failure left run_pipeline
C8_Witness ==
    /\ pc = "raised"
    /\ Len(completed) >= 2
    /\ unit[completed[1]].st = "failed"
    /\ unit[completed[2]].st = "done" /\ unit[completed[2]].acc # <<>>

(***************************************************************************)
(* C9: the returned list is a function of the listing alone: the vehicles  *)
(* of an Auction are ordered by (file position, row index), and the        *)
(* Auctions by the first row of their key, whatever the order in which the *)
(* units ran.                                                              *)
(***************************************************************************)
C9_OrderIndependent ==
    returned.is_set =>
        LET L == returned.list
            rows == FlatRows(files)
        IN  /\ \A k \in 1 .. Len(L) :
                 L[k].vehicles = VehiclesInOrder(rows, KeyOfAuction(L[k]))
            /\ \A j, k \in 1 .. Len(L) :
                 j < k => FirstIndex(rows, KeyOfAuction(L[j])) < FirstIndex(rows, KeyOfAuction(L[k]))

\* the second file completed first and shares an Auction with the first
C9_Witness ==
    /\ returned.is_set
    /\ completed = <<2, 1>>
    /\ Len(files[1].rows) = 1 /\ Len(files[2].rows) = 1
    /\ Len(returned.list) = 1
    /\ returned.list[1].vehicles[1] # returned.list[1].vehicles[2]

(***************************************************************************)
(* C10: the dict of Auctions is append-only: a step that changes it        *)
(* handles one triple and either adds an Auction for a new key holding     *)
(* that one vehicle, or appends the vehicle to the Auction of its key;     *)
(* every Auction keeps its place, its date_utc, its location and its       *)
(* vehicles as a prefix; no Auction is ever empty.                         *)
(***************************************************************************)
IsPrefix(a, b) == Len(a) <= Len(b) /\ SubSeq(b, 1, Len(a)) = a

AppendOnlyStep ==
    /\ \A k \in 1 .. Len(auctions) :
         /\ k <= Len(auctions')
         /\ auctions'[k].date_utc = auctions[k].date_utc
         /\ auctions'[k].location = auctions[k].location
         /\ IsPrefix(auctions[k].vehicles, auctions'[k].vehicles)
    /\ auctions' # auctions =>
         LET t == results[fi][ri]
             key == <<t.date_utc, t.loc>>
             old == {k \in 1 .. Len(auctions) : KeyOfAuction(auctions[k]) = key}
         IN  \/ /\ old = {}
                /\ auctions' = Append(auctions, [date_utc |-> t.date_utc, location |-> t.loc,
                                                 vehicles |-> <<t.vehicle>>])
             \/ \E k \in old :
                  auctions' = [auctions EXCEPT ![k].vehicles = Append(@, t.vehicle)]
    /\ \A k \in 1 .. Len(auctions') : auctions'[k].vehicles # <<>>

C10_AppendOnly == [][AppendOnlyStep]_vars

\* the merge has appended a second vehicle to an existing Auction
C10_Witness ==
    /\ pc = "merge"
    /\ \E k \in 1 .. Len(auctions) : Len(auctions[k].vehicles) = 2


(***************************************************************************)
(* C4: for a date string with a token of the expected layout (a weekday, a *)
(* month, a day of that month, an hour of the 12-hour clock, a minute,     *)
(* am or pm in lower or upper case, any trailing text),                    *)
(* parse_auction_date returns a UTC-tagged instant that is the wall-clock  *)
(* time plus 5 hours where only daylight-saving time gives that wall-clock *)
(* time, and plus 6 hours otherwise (standard time, which also reads the   *)
(* repeated hour of the autumn change and the skipped hour of the spring   *)
(* change); 12AM is hour 0 and 12PM is hour 12, and the date rolls over    *)
(* into the next day, month and year.                                      *)
(***************************************************************************)
\* the wall-clock time the token names, in minutes since 0001-01-01 00:00
WallMinutes(d, y) ==
    (ToOrdinal(y, MonthNum(d.mon), d.dd) - 1) * 1440
    + ((d.hh % 12) + (IF d.mer \in {"pm", "PM"} THEN 12 ELSE 0)) * 60 + d.mi

\* the wall-clock time of the two changes of the year: 02:00 on the second
\* Sunday of March and 02:00 on the first Sunday of November
SpringChange(y) == (ToOrdinal(y, 3, NthSunday(y, 3, 2)) - 1) * 1440 + 120
AutumnChange(y) == (ToOrdinal(y, 11, NthSunday(y, 11, 1)) - 1) * 1440 + 120

\* the wall-clock time is shown by a clock on daylight-saving time, and by
\* none on standard time
OnlyDaylight(wall, y) == SpringChange(y) + 60 <= wall /\ wall < AutumnChange(y) - 60

C4_TimezoneCorrect ==
    (pd_result.status # "pending" /\ ValidToken(pd_date_str, pd_year)) =>
        LET dt == pd_result.dt
            wall == WallMinutes(pd_date_str, pd_year)
        IN  /\ pd_result.status = "ok"
            /\ pd_result.tzinfo = "UTC"
            /\ dt.month \in 1 .. 12
            /\ dt.day \in 1 .. DaysInMonth(dt.year, dt.month)
            /\ dt.hour \in 0 .. 23
            /\ dt.minute \in 0 .. 59
            /\ ToMinutes(dt) = wall + (IF OnlyDaylight(wall, pd_year) THEN 300 ELSE 360)
            /\ pd_date_str = DateStr("Mon", "Dec", 1, 8, 30, "am", " CST") =>
                 (dt.hour = 14 /\ dt.minute = 30)

\* an evening of daylight-saving time that rolls over into the next month
C4_Witness ==
    /\ pd_result.status = "ok"
    /\ ValidToken(pd_date_str, pd_year)
    /\ pd_date_str.mon = "Jun" /\ pd_date_str.dd = 30
    /\ pd_date_str.hh = 11 /\ pd_date_str.mer = "pm" /\ pd_date_str.tail = " CST"
    /\ pd_result.dt.month = 7 /\ pd_result.dt.day = 1 /\ pd_result.dt.hour = 4

(***************************************************************************)
(* C5: Transmission.from_str always returns a member: AUTOMATIC exactly    *)
(* when the input, without the whitespace around it, spells "automatic" in *)
(* any mix of cases, MANUAL exactly when it spells "manual", and UNKNOWN   *)
(* for every other input, None and the empty string included.              *)
(***************************************************************************)
\* the string is the word w in some mix of cases, within whitespace
Spells(value, w) ==
    /\ value.kind = "str"
    /\ LET s == value.chars
       IN  \E a \in 0 .. Len(s) :
             /\ a + Len(w) <= Len(s)
             /\ \A k \in 1 .. a : s[k] \in Whitespace
             /\ \A k \in 1 .. Len(w) : s[a + k] \in {w[k], UpperChar(w[k])}
             /\ \A k \in (a + Len(w) + 1) .. Len(s) : s[k] \in Whitespace

C5_FromStrTotal ==
    ts_result.status = "returned" =>
        LET automatic == Spells(ts_value, <<"a", "u", "t", "o", "m", "a", "t", "i", "c">>)
            manual == Spells(ts_value, <<"m", "a", "n", "u", "a", "l">>)
        IN  /\ ts_result.member \in {"AUTOMATIC", "MANUAL", "UNKNOWN"}
            /\ ts_result.member = "AUTOMATIC" <=> automatic
            /\ ts_result.member = "MANUAL" <=> manual
            /\ (~ automatic /\ ~ manual) => ts_result.member = "UNKNOWN"
            /\ (~ Truthy(ts_value)) => ts_result.member = "UNKNOWN"

\* a padded "mAnUaL" was taken as MANUAL
C5_Witness ==
    /\ ts_result.status = "returned"
    /\ ts_result.member = "MANUAL"
    /\ ts_value.chars = <<" ", "m", "A", "n", "U", "a", "L", "\t">>

===========================================================================
